---- MODULE Spec2Model ----
(***************************************************************************)
(* BaseRepository (src/fastapi_repository/base.py) over an asynchronous    *)
(* session.  The session and the relational engine are collaborators of    *)
(* the repository; they are modelled by what the repository relies on:     *)
(* staging (add / attribute assignment / delete), autoflush before a       *)
(* statement, commit, refresh, and the evaluation of a compiled statement  *)
(* over the table in primary-key scan order.                               *)
(*                                                                         *)
(* A kwargs key is a sequence of atoms, the atom "__" being the separator; *)
(* "age__gte" is <<"age", "__", "gte">>.  A name (a segment of a key, or a  *)
(* whole key without separator) is the sequence of its atoms: <<>> is the  *)
(* empty string.  A character string (Post.title) is a sequence of         *)
(* one-character strings.  The modelled columns are NOT NULL.  The         *)
(* eager/lazy load options are left at their default (None).               *)
(***************************************************************************)
EXTENDS Integers, Sequences, FiniteSets, TLC

VARIABLES
    session,        \* self.session: [store, committed, staged]
    posts,          \* rows of the table the relationship User.posts targets
    default_scope,  \* the class attribute default_scope of the repository subtype
    nextId,         \* the next primary key the column default will generate
    input,          \* the kwargs key drawn for a single call (SpecKeys only)
    last            \* the call the caller holds the outcome of: operation, arguments,
                    \* result, session trace, the store before it; Idle between calls

vars == <<session, posts, default_scope, nextId, input, last>>

\* Number of primary keys the model generates (rows ever inserted <= MaxId).
MaxId == 2

\* Default page size of where().
DefaultLimit == 100

-----------------------------------------------------------------------------
(* Entity descriptors *)

Model == "User"

Columns == [User |-> {"id", "age", "is_active"}, Post |-> {"id", "user_id", "title"}]

Relationships == [User |-> {"posts"}, Post |-> {}]

RelTarget == [posts |-> "Post"]

None == [kind |-> "None"]

\* getattr(cls, name, None)
getattr(cls, name) ==
    IF Len(name) = 1 /\ name[1] \in Columns[cls]
    THEN [kind |-> "column", cls |-> cls, key |-> name[1]]
    ELSE IF Len(name) = 1 /\ name[1] \in Relationships[cls]
    THEN [kind |-> "relationship", cls |-> cls, key |-> name[1]]
    ELSE None

-----------------------------------------------------------------------------
(* Operator table *)

OPERATORS ==
    {"exact", "iexact", "contains", "icontains", "in", "gt", "gte", "lt", "lte",
     "startswith", "istartswith", "endswith", "iendswith"}

LowerChar(c) == IF c = "A" THEN "a" ELSE IF c = "B" THEN "b" ELSE c

Lower(str) == [i \in 1..Len(str) |-> LowerChar(str[i])]

StartsWith(str, pre) ==
    Len(pre) <= Len(str) /\ SubSeq(str, 1, Len(pre)) = pre

EndsWith(str, suf) ==
    Len(suf) <= Len(str) /\ SubSeq(str, Len(str) - Len(suf) + 1, Len(str)) = suf

Contains(str, sub) ==
    \E i \in 0..(Len(str) - Len(sub)) : SubSeq(str, i + 1, i + Len(sub)) = sub

\* A list value of "in" is [list |-> <<...>>]; any other value is a scalar.
IsList(val) == DOMAIN val = {"list"}

InSet(val) == IF IsList(val) THEN {val.list[i] : i \in 1..Len(val.list)} ELSE {val.v}

\* OPERATORS[op](col, val), evaluated on a column value.  Scalars travel as
\* [v |-> x]; ilike is taken on values without wildcard characters.
ApplyOp(op, col, val) ==
    CASE op = "exact"       -> col = val.v
      [] op = "iexact"      -> Lower(col) = Lower(val.v)
      [] op = "contains"    -> Contains(col, val.v)
      [] op = "icontains"   -> Contains(Lower(col), Lower(val.v))
      [] op = "in"          -> col \in InSet(val)
      [] op = "gt"          -> col > val.v
      [] op = "gte"         -> col >= val.v
      [] op = "lt"          -> col < val.v
      [] op = "lte"         -> col <= val.v
      [] op = "startswith"  -> StartsWith(col, val.v)
      [] op = "istartswith" -> StartsWith(Lower(col), Lower(val.v))
      [] op = "endswith"    -> EndsWith(col, val.v)
      [] op = "iendswith"   -> EndsWith(Lower(col), Lower(val.v))

-----------------------------------------------------------------------------
(* Filter compiler *)

Sep == "__"

\* "__" in key
HasSep(key) == \E i \in 1..Len(key) : key[i] = Sep

\* The positions of the separators of key, in order.
SepAt(key) ==
    LET at == {i \in 1..Len(key) : key[i] = Sep}
    IN  [k \in 1..Cardinality(at) |->
            CHOOSE i \in at : Cardinality({j \in at : j < i}) = k - 1]

\* The segments of key between the separators at, empty ones included.
Segments(key, at) ==
    [k \in 1..(Len(at) + 1) |->
        SubSeq(key,
               IF k = 1 THEN 1 ELSE at[k - 1] + 1,
               IF k = Len(at) + 1 THEN Len(key) ELSE at[k] - 1)]

\* key.split("__")
split(key) == Segments(key, SepAt(key))

Raise(e) == [err |-> e, conds |-> <<>>]

NoError == ""

\* parts[-1] in OPERATORS
LastIsOperator(parts) ==
    Len(parts[Len(parts)]) = 1 /\ parts[Len(parts)][1] \in OPERATORS

\* A simple column: the attribute must resolve; OPERATORS[op](column, value).
column_condition(column, op, value) ==
    IF column = None
    THEN Raise("AttributeError")
    ELSE [err |-> NoError,
          conds |-> <<[kind |-> "column", attr |-> column.key, op |-> op, value |-> value]>>]

\* The field of the relationship's target: rel_attr.any(OPERATORS[op](target_column, value)).
target_condition(target_column, op, value) ==
    IF target_column = None
    THEN Raise("AttributeError")
    ELSE [err |-> NoError,
          conds |-> <<[kind |-> "any", attr |-> target_column.key, op |-> op, value |-> value]>>]

\* A one-hop relationship: parts[0] must be an attribute with a property whose
\* mapper gives the target class (a column's property has no mapper: the
\* attribute access raises); parts[1] is looked up on the target; any further
\* part is not read.
relationship_condition(rel_attr, parts, op, value) ==
    IF rel_attr = None
    THEN Raise("AttributeError")
    ELSE IF rel_attr.kind # "relationship"
    THEN Raise("AttributeError")
    ELSE target_condition(getattr(RelTarget[rel_attr.key], parts[2]), op, value)

\* The parts left once the operator is taken off.
parts_condition(parts, op, value) ==
    IF Len(parts) = 1
    THEN column_condition(getattr(Model, parts[1]), op, value)
    ELSE relationship_condition(getattr(Model, parts[1]), parts, op, value)

\* op = "exact"; if parts[-1] in OPERATORS: op = parts.pop()
split_condition(parts, value) ==
    IF LastIsOperator(parts)
    THEN parts_condition(SubSeq(parts, 1, Len(parts) - 1), parts[Len(parts)][1], value)
    ELSE parts_condition(parts, "exact", value)

\* One iteration of the loop of __get_conditions: the predicate of one key,
\* or the error it raises.
condition(key, value) ==
    IF HasSep(key)
    THEN split_condition(split(key), value)
    ELSE column_condition(getattr(Model, key), "exact", value)

\* The loop's outcome: the first key that fails raises, else every predicate.
Collected(each) ==
    IF \E i \in 1..Len(each) : each[i].err # NoError
    THEN each[CHOOSE i \in 1..Len(each) :
                  /\ each[i].err # NoError
                  /\ \A j \in 1..(i - 1) : each[j].err = NoError]
    ELSE [err |-> NoError, conds |-> [i \in 1..Len(each) |-> each[i].conds[1]]]

\* __get_conditions(**search_params): search_params is the sequence of the
\* mapping's <<key, value>> items in order.
get_conditions(search_params) ==
    Collected([i \in 1..Len(search_params) |->
                  condition(search_params[i][1], search_params[i][2])])

-----------------------------------------------------------------------------
(* The relational engine: evaluation of a compiled statement *)

\* One compiled predicate on one row of the model's table; "any" is the
\* EXISTS over the related rows that rel_attr.any(...) renders.
Holds(cond, row) ==
    IF cond.kind = "column"
    THEN ApplyOp(cond.op, row[cond.attr], cond.value)
    ELSE \E p \in posts : p.user_id = row.id /\ ApplyOp(cond.op, p[cond.attr], cond.value)

\* WHERE cond_1 AND ... AND cond_n
Matching(store, conds) ==
    {r \in store : \A i \in 1..Len(conds) : Holds(conds[i], r)}

NoOrder == [col |-> "", dir |-> "asc"]

\* r is delivered no later than q: by the ORDER BY column, ties (and no
\* ORDER BY) in primary-key scan order.
Before(r, q, order) ==
    IF order.col = ""
    THEN r.id <= q.id
    ELSE IF r[order.col] = q[order.col]
    THEN r.id <= q.id
    ELSE IF order.dir = "asc"
    THEN r[order.col] < q[order.col]
    ELSE r[order.col] > q[order.col]

Ordered(S, order) ==
    [k \in 1..Cardinality(S) |->
        CHOOSE r \in S : Cardinality({q \in S : Before(q, r, order)}) = k]

Min(a, b) == IF a <= b THEN a ELSE b

\* LIMIT limit OFFSET offset
Page(all, limit, offset) == SubSeq(all, offset + 1, Min(Len(all), offset + limit))

\* SELECT ... WHERE ... ORDER BY ... LIMIT limit OFFSET offset
Select(store, query) ==
    Page(Ordered(Matching(store, query.conds), query.order), query.limit, query.offset)

\* Result.unique(): the first occurrence of each entity, in order.
unique(rows) ==
    LET firsts == {i \in 1..Len(rows) : \A j \in 1..(i - 1) : rows[j] # rows[i]}
    IN  [k \in 1..Cardinality(firsts) |->
            rows[CHOOSE i \in firsts : Cardinality({j \in firsts : j < i}) = k - 1]]

\* UPDATE ... SET field = value, ... on one row; values is a sequence of
\* <<field, value>>, a later assignment of a field overriding an earlier one
SetValues(row, values) ==
    [f \in DOMAIN row |->
        LET at == {i \in 1..Len(values) : values[i][1] = f}
        IN  IF at = {}
            THEN row[f]
            ELSE values[CHOOSE i \in at : \A j \in at : j <= i][2]]

-----------------------------------------------------------------------------
(* The session.  s is the session during a call: store is what statements   *)
(* of this session see, committed what the last commit made durable,        *)
(* staged the unit of work not yet flushed, log the session methods the     *)
(* call has invoked so far, nextId the next generated primary key.          *)

\* FlushOne with an INSERT that writes the column default of is_active over
\* the value given.
FlushOne_DefaultOverGiven(s, ch) ==
    CASE ch.kind = "insert" ->
            [s EXCEPT !.store = @ \cup
                {[id |-> s.nextId, age |-> ch.fields.age, is_active |-> TRUE]},
                      !.nextId = @ + 1]
      [] ch.kind = "update" ->
            [s EXCEPT !.store = {IF r.id = ch.id THEN SetValues(r, <<<<ch.field, ch.value>>>>)
                                 ELSE r : r \in @}]
      [] ch.kind = "delete" ->
            [s EXCEPT !.store = {r \in @ : r.id # ch.id}]

\* What one staged change does at flush.  An INSERT applies the column
\* defaults: id (conftest.py:16), is_active (conftest.py:21).
FlushOne(s, ch) ==
    CASE ch.kind = "insert" ->
            [s EXCEPT !.store = @ \cup
                {[id |-> s.nextId,
                  age |-> ch.fields.age,
                  is_active |-> IF "is_active" \in DOMAIN ch.fields
                                THEN ch.fields.is_active ELSE TRUE]},
                      !.nextId = @ + 1]
      [] ch.kind = "update" ->
            [s EXCEPT !.store = {IF r.id = ch.id THEN SetValues(r, <<<<ch.field, ch.value>>>>)
                                 ELSE r : r \in @}]
      [] ch.kind = "delete" ->
            [s EXCEPT !.store = {r \in @ : r.id # ch.id}]

\* The staged changes, applied in the order they were staged.
FlushAll(s, staged) ==
    LET upto[i \in 0..Len(staged)] ==
            IF i = 0 THEN s ELSE FlushOne(upto[i - 1], staged[i])
    IN  upto[Len(staged)]

\* Session.flush(): the unit of work reaches the transaction.
Flush(s) == [FlushAll(s, s.staged) EXCEPT !.staged = <<>>]

Log(s, what) == [s EXCEPT !.log = Append(@, what)]

\* session.add(instance)
Add(s, fields) ==
    Log([s EXCEPT !.staged = Append(@, [kind |-> "insert", fields |-> fields])], "add")

\* setattr(instance, field, value) on a persistent instance
SetAttr(s, id, field, value) ==
    Log([s EXCEPT !.staged = Append(@, [kind |-> "update", id |-> id,
                                        field |-> field, value |-> value])], "setattr")

\* session.delete(instance)
Delete(s, id) ==
    Log([s EXCEPT !.staged = Append(@, [kind |-> "delete", id |-> id])], "delete")

\* The transaction's state becomes the durable one.
Durable(s) == [s EXCEPT !.committed = s.store]

\* Commit that flushes and does not commit.
Commit_FlushOnly(s) == Log(Flush(s), "flush")

\* session.commit(): flush, then commit the transaction
Commit(s) == Log(Durable(Flush(s)), "commit")

\* session.execute(statement): autoflush, then the statement
Execute(s) == Log(Flush(s), "execute")

\* session.refresh(instance): reloads the row of the instance's identity
Refresh(s) == Log(Flush(s), "refresh")

Row(s, id) == CHOOSE r \in s.store : r.id = id

-----------------------------------------------------------------------------
(* BaseRepository.  Every operation takes the session as the call finds it  *)
(* and yields [s |-> the session as the call leaves it, res |-> what the    *)
(* call returns or raises].                                                 *)

Result(status, rows, n, flag) == [status |-> status, rows |-> rows, n |-> n, flag |-> flag]

\* the call raises
Failed(e) == Result(e, <<>>, 0, FALSE)

\* the call returns an entity, a list of entities, or None (<<>>)
Returned(rows) == Result("ok", rows, 0, FALSE)

Out(s, res) == [s |-> s, res |-> res]

\* sorted_order.lower()
lower(sorted_order) ==
    IF sorted_order = "ASC" THEN "asc"
    ELSE IF sorted_order = "DESC" THEN "desc"
    ELSE sorted_order

\* The body of _apply_order_by: "not column" is true of None only.
order_by(column, sorted_order) ==
    IF column = None
    THEN [err |-> "AttributeError", order |-> NoOrder]
    ELSE [err |-> NoError,
          order |-> [col |-> column.key,
                     dir |-> IF lower(sorted_order) = "asc" THEN "asc" ELSE "desc"]]

\* _apply_order_by
apply_order_by(sorted_by, sorted_order) == order_by(getattr(Model, sorted_by), sorted_order)

\* default_conditions that never merges the default scope.
default_conditions_Never(disable_default_scope) == [err |-> NoError, conds |-> <<>>]

\* if not disable_default_scope: __get_conditions(**self.default_scope)
default_conditions(disable_default_scope) ==
    IF ~disable_default_scope
    THEN get_conditions(default_scope)
    ELSE [err |-> NoError, conds |-> <<>>]

\* if sorted_by: sorted_by <<>> is None (or the empty string), which is falsy
ordering(sorted_by, sorted_order) ==
    IF sorted_by # <<>>
    THEN apply_order_by(sorted_by, sorted_order)
    ELSE [err |-> NoError, order |-> NoOrder]

\* The statement of __generate_query, or the first error of its steps:
\* default-scope conditions, explicit conditions, ordering.
build_query(dflt, conditions, ordered, limit, offset) ==
    IF dflt.err # NoError
    THEN [err |-> dflt.err]
    ELSE IF conditions.err # NoError
    THEN [err |-> conditions.err]
    ELSE IF ordered.err # NoError
    THEN [err |-> ordered.err]
    ELSE [err |-> NoError, conds |-> dflt.conds \o conditions.conds,
          order |-> ordered.order, limit |-> limit, offset |-> offset]

\* __generate_query
generate_query(limit, offset, sorted_by, sorted_order, disable_default_scope, search_params) ==
    build_query(default_conditions(disable_default_scope),
                get_conditions(search_params),
                ordering(sorted_by, sorted_order),
                limit, offset)

IdParam(id) == << << <<"id">>, [v |-> id] >> >>

\* find, from its query on: execute, first row or NoResultFound
find_query(s, query) ==
    IF query.err # NoError
    THEN Out(s, Failed(query.err))
    ELSE LET s1     == Execute(s)
             result == Select(s1.store, query)
         IN  IF result = <<>>
             THEN Out(s1, Failed("NoResultFound"))
             ELSE Out(s1, Returned(<<result[1]>>))

find(s, id, sorted_by, sorted_order, disable_default_scope) ==
    find_query(s, generate_query(1, 0, sorted_by, sorted_order,
                                 disable_default_scope, IdParam(id)))

\* find_by, from its query on: execute, first row or None
find_by_query(s, query) ==
    IF query.err # NoError
    THEN Out(s, Failed(query.err))
    ELSE LET s1     == Execute(s)
             result == Select(s1.store, query)
         IN  Out(s1, Returned(IF result = <<>> THEN <<>> ELSE <<result[1]>>))

find_by(s, sorted_by, sorted_order, disable_default_scope, search_params) ==
    find_by_query(s, generate_query(1, 0, sorted_by, sorted_order,
                                    disable_default_scope, search_params))

\* or_raise that hands None on.
or_raise_Never(instance) == instance

\* if not instance: raise NoResultFound
or_raise(instance) ==
    IF instance.res.status # "ok"
    THEN instance
    ELSE IF instance.res.rows = <<>>
    THEN Out(instance.s, Failed("NoResultFound"))
    ELSE instance

find_by_or_raise(s, sorted_by, sorted_order, disable_default_scope, search_params) ==
    or_raise(find_by(s, sorted_by, sorted_order, disable_default_scope, search_params))

\* where, from its query on: execute, unique().scalars().all()
where_query(s, query) ==
    IF query.err # NoError
    THEN Out(s, Failed(query.err))
    ELSE Out(Execute(s), Returned(unique(Select(Execute(s).store, query))))

where(s, limit, offset, sorted_by, sorted_order, disable_default_scope, search_params) ==
    where_query(s, generate_query(limit, offset, sorted_by, sorted_order,
                                  disable_default_scope, search_params))

\* The rows of a join of the model's table with the related table, where the
\* related row satisfies the relationship predicates.
Joined(store, conds) ==
    IF \E i \in 1..Len(conds) : conds[i].kind = "any"
    THEN {<<r, p>> \in Matching(store, conds) \X posts :
             /\ p.user_id = r.id
             /\ \A i \in 1..Len(conds) :
                   conds[i].kind = "any" => ApplyOp(conds[i].op, p[conds[i].attr], conds[i].value)}
    ELSE Matching(store, conds)

\* count_query counting the rows of a join instead of an EXISTS.
count_query_Joined(s, dflt, conditions) ==
    IF dflt.err # NoError
    THEN Out(s, Failed(dflt.err))
    ELSE IF conditions.err # NoError
    THEN Out(s, Failed(conditions.err))
    ELSE Out(Execute(s),
             Result("ok", <<>>,
                    Cardinality(Joined(Execute(s).store, dflt.conds \o conditions.conds)),
                    FALSE))

\* count, from its conditions on: SELECT count(*) ... WHERE, scalar() or 0
count_query(s, dflt, conditions) ==
    IF dflt.err # NoError
    THEN Out(s, Failed(dflt.err))
    ELSE IF conditions.err # NoError
    THEN Out(s, Failed(conditions.err))
    ELSE Out(Execute(s),
             Result("ok", <<>>,
                    Cardinality(Matching(Execute(s).store, dflt.conds \o conditions.conds)),
                    FALSE))

count(s, disable_default_scope, search_params) ==
    count_query(s, default_conditions(disable_default_scope), get_conditions(search_params))

\* counted > 0
positive(counted) ==
    IF counted.res.status # "ok"
    THEN counted
    ELSE Out(counted.s, Result("ok", <<>>, 0, counted.res.n > 0))

exists(s, disable_default_scope, search_params) ==
    positive(count(s, disable_default_scope, search_params))

\* self.model(**create_params): the attributes the constructor sets
NewInstance(create_params) ==
    [f \in {create_params[i][1] : i \in 1..Len(create_params)} |->
        create_params[CHOOSE i \in 1..Len(create_params) : create_params[i][1] = f][2]]

\* The refreshed instance create returns: the row of the key the flush generated.
created(s, id) == Out(s, Returned(<<Row(s, id)>>))

create(s, create_params) ==
    created(Refresh(Commit(Add(s, NewInstance(create_params)))), s.nextId)

\* for field, value in update_params.items(): setattr(instance, field, value)
SetAttrs(s, id, update_params) ==
    LET upto[i \in 0..Len(update_params)] ==
            IF i = 0
            THEN s
            ELSE SetAttr(upto[i - 1], id, update_params[i][1], update_params[i][2])
    IN  upto[Len(update_params)]

\* update, once find has returned or raised
update_found(instance, id, update_params) ==
    IF instance.res.status # "ok"
    THEN instance
    ELSE created(Refresh(Commit(SetAttrs(instance.s, id, update_params))), id)

\* update that looks the row up with the default scope disabled.
update_Unscoped(s, id, update_params) ==
    update_found(find(s, id, <<>>, "asc", TRUE), id, update_params)

update(s, id, update_params) ==
    update_found(find(s, id, <<>>, "asc", FALSE), id, update_params)

\* The bulk UPDATE statement on the rows it matches, then the commit.
update_matched(s1, matched, updates) ==
    Out(Commit([s1 EXCEPT !.store =
                   {IF r \in matched THEN SetValues(r, updates) ELSE r : r \in @}]),
        Result("ok", <<>>, Cardinality(matched), FALSE))

\* update_all, from its conditions on
update_all_conditions(s, updates, conditions) ==
    IF conditions.err # NoError
    THEN Out(s, Failed(conditions.err))
    ELSE update_matched(Execute(s), Matching(Execute(s).store, conditions.conds), updates)

\* update_all that merges the default scope.
update_all_Scoped(s, updates, search_params) ==
    update_all_conditions(s, updates, get_conditions(default_scope \o search_params))

update_all(s, updates, search_params) ==
    update_all_conditions(s, updates, get_conditions(search_params))

\* destroy, once find has returned or raised
destroy_found(instance, id) ==
    IF instance.res.status # "ok"
    THEN instance
    ELSE Out(Commit(Delete(instance.s, id)), Returned(<<>>))

destroy(s, id) == destroy_found(find(s, id, <<>>, "asc", FALSE), id)

\* The bulk DELETE statement on the rows it matches, then the commit.
destroy_matched(s1, matched) ==
    Out(Commit([s1 EXCEPT !.store = @ \ matched]),
        Result("ok", <<>>, Cardinality(matched), FALSE))

\* destroy_all, from its conditions on
destroy_all_conditions(s, conditions) ==
    IF conditions.err # NoError
    THEN Out(s, Failed(conditions.err))
    ELSE destroy_matched(Execute(s), Matching(Execute(s).store, conditions.conds))

\* destroy_all that merges the default scope.
destroy_all_Scoped(s, search_params) ==
    destroy_all_conditions(s, get_conditions(default_scope \o search_params))

destroy_all(s, search_params) == destroy_all_conditions(s, get_conditions(search_params))

-----------------------------------------------------------------------------
(* Inputs *)

\* a scalar keyword value
Val(x) == [v |-> x]

Filters ==
    { <<>>,
      << <<(<<"age">>), Val(1)>> >>,
      << <<(<<"age", Sep, "gte">>), Val(2)>> >>,
      << <<(<<"is_active">>), Val(FALSE)>> >>,
      << <<(<<"posts", Sep, "title">>), Val(<<"a", "b">>)>> >>,
      << <<(<<"age", Sep, "in">>), [list |-> <<1, 2>>]>>,
         <<(<<"posts", Sep, "title", Sep, "istartswith">>), Val(<<"A">>)>> >> }

Scopes == { <<>>, << <<(<<"is_active">>), Val(TRUE)>> >> }

Sorts ==
    { [by |-> <<>>, order |-> "asc"],
      [by |-> <<"age">>, order |-> "DESC"] }

\* sorted_by, sorted_order, limit, offset of the where() calls
Views ==
    { [by |-> <<>>, order |-> "asc", limit |-> DefaultLimit, offset |-> 0],
      [by |-> <<"age">>, order |-> "ASC", limit |-> DefaultLimit, offset |-> 0],
      [by |-> <<"age">>, order |-> "desc", limit |-> 1, offset |-> 0],
      [by |-> <<>>, order |-> "asc", limit |-> 1, offset |-> 1] }

Ids == 1..MaxId

CreateParams ==
    { << <<"age", a>> >> : a \in {1, 2} } \cup
    { << <<"age", a>>, <<"is_active", b>> >> : a \in {1, 2}, b \in BOOLEAN }

UpdateParams ==
    { << <<"age", 1>> >>,
      << <<"is_active", FALSE>> >>,
      << <<"is_active", TRUE>>, <<"age", 2>> >> }

\* The rows the fixtures commit before the repository is used.
UsersFixture == { [id |-> 1, age |-> 1, is_active |-> TRUE] }

PostsFixture ==
    { [id |-> 1, user_id |-> 1, title |-> <<"a", "b">>],
      [id |-> 2, user_id |-> 1, title |-> <<"a", "b">>],
      [id |-> 3, user_id |-> 1, title |-> <<"A">>] }

NoArgs ==
    [id |-> 0, params |-> <<>>, disable |-> FALSE, sorted_by |-> <<>>,
     sorted_order |-> "asc", limit |-> 0, offset |-> 0, fields |-> <<>>]

NoInput == [params |-> <<>>, sorted_by |-> <<>>, none |-> TRUE]

\* Number of segments of the longest key drawn for a single call.
MaxSegments == 4

Vocabulary == {"age", "posts", "title", "bogus", "in"}

\* A segment of a key: one name, or the empty string.
Segs == {<<w>> : w \in Vocabulary} \cup {<<>>}

\* "__".join(segs)
Join(segs) ==
    LET upto[i \in 1..Len(segs)] ==
            IF i = 1 THEN segs[1] ELSE upto[i - 1] \o <<Sep>> \o segs[i]
    IN  upto[Len(segs)]

\* Left out of the keys drawn: a relationship attribute compared as if it were
\* a column ("posts", "posts__in"), whose outcome is the mapping layer's.
RelationshipAsColumn(segs) ==
    \/ Len(segs) = 1 /\ segs[1] = <<"posts">>
    \/ Len(segs) = 2 /\ segs[1] = <<"posts">> /\ segs[2] = <<"in">>

AllKeys ==
    {Join(segs) : segs \in {x \in UNION {[1..n -> Segs] : n \in 1..MaxSegments} :
                                ~RelationshipAsColumn(x)}}

\* A value of the type of the column a key can reach: Post.title through
\* posts, else an integer.
ValueFor(key) ==
    IF Len(key) > 0 /\ key[1] = "posts" THEN Val(<<"a", "b">>) ELSE Val(1)

KeyInputs ==
    {[params |-> << <<k, ValueFor(k)>> >>, sorted_by |-> <<>>, none |-> FALSE] :
        k \in AllKeys}
    \cup
    {[params |-> << <<(<<"age">>), Val(1)>>, <<k, ValueFor(k)>> >>,
      sorted_by |-> <<>>, none |-> FALSE] :
        k \in {x \in AllKeys : Len(x) <= 3}}
    \cup
    {[params |-> p, sorted_by |-> so, none |-> FALSE] :
        p \in {<<>>, << <<(<<"age">>), Val(1)>> >>},
        so \in {<<"age">>, <<"bogus">>}}

KeyScopes == Scopes \cup { << <<(<<"bogus">>), Val(TRUE)>> >> }

-----------------------------------------------------------------------------
(* State machine *)

\* The session as a call finds it.
Begin == [store |-> session.store, committed |-> session.committed,
          staged |-> session.staged, log |-> <<>>, nextId |-> nextId]

Idle == [op |-> "none", args |-> NoArgs, res |-> Returned(<<>>), log |-> <<>>, pre |-> {}]

\* The caller, between calls, awaits one operation to its return or raise.
Call(op, args, out) ==
    /\ last = Idle
    /\ session' = [store |-> out.s.store, committed |-> out.s.committed,
                   staged |-> out.s.staged]
    /\ nextId' = out.s.nextId
    /\ last' = [op |-> op, args |-> args, res |-> out.res, log |-> out.s.log,
                pre |-> session.store]
    /\ UNCHANGED <<posts, default_scope, input>>

InitCommon ==
    /\ session = [store |-> UsersFixture, committed |-> UsersFixture, staged |-> <<>>]
    /\ posts = PostsFixture
    /\ nextId = Cardinality(UsersFixture) + 1
    /\ last = Idle

Init ==
    /\ InitCommon
    /\ default_scope \in Scopes
    /\ input = NoInput

Find ==
    \E id \in Ids, d \in BOOLEAN :
        Call("find", [NoArgs EXCEPT !.id = id, !.disable = d],
             find(Begin, id, <<>>, "asc", d))

FindBy ==
    \E f \in Filters, so \in Sorts, d \in BOOLEAN :
        Call("find_by",
             [NoArgs EXCEPT !.params = f, !.sorted_by = so.by, !.sorted_order = so.order,
                            !.disable = d],
             find_by(Begin, so.by, so.order, d, f))

FindByOrRaise ==
    \E f \in Filters, so \in Sorts, d \in BOOLEAN :
        Call("find_by_or_raise",
             [NoArgs EXCEPT !.params = f, !.sorted_by = so.by, !.sorted_order = so.order,
                            !.disable = d],
             find_by_or_raise(Begin, so.by, so.order, d, f))

Where ==
    \E f \in Filters, w \in Views, d \in BOOLEAN :
        Call("where",
             [NoArgs EXCEPT !.params = f, !.sorted_by = w.by, !.sorted_order = w.order,
                            !.disable = d, !.limit = w.limit, !.offset = w.offset],
             where(Begin, w.limit, w.offset, w.by, w.order, d, f))

Count ==
    \E f \in Filters, d \in BOOLEAN :
        Call("count", [NoArgs EXCEPT !.params = f, !.disable = d], count(Begin, d, f))

Exists ==
    \E f \in Filters, d \in BOOLEAN :
        Call("exists", [NoArgs EXCEPT !.params = f, !.disable = d], exists(Begin, d, f))

Create ==
    /\ nextId <= MaxId
    /\ \E c \in CreateParams :
        Call("create", [NoArgs EXCEPT !.fields = c], create(Begin, c))

Update ==
    \E id \in Ids, u \in UpdateParams :
        Call("update", [NoArgs EXCEPT !.id = id, !.fields = u], update(Begin, id, u))

UpdateAll ==
    \E u \in UpdateParams, f \in Filters :
        Call("update_all", [NoArgs EXCEPT !.fields = u, !.params = f],
             update_all(Begin, u, f))

Destroy ==
    \E id \in Ids :
        Call("destroy", [NoArgs EXCEPT !.id = id], destroy(Begin, id))

DestroyAll ==
    \E f \in Filters :
        Call("destroy_all", [NoArgs EXCEPT !.params = f], destroy_all(Begin, f))

\* The caller takes the outcome and is ready for its next call.
Return ==
    /\ last # Idle
    /\ input = NoInput
    /\ last' = Idle
    /\ UNCHANGED <<session, posts, default_scope, nextId, input>>

Next ==
    \/ Find
    \/ FindBy
    \/ FindByOrRaise
    \/ Where
    \/ Count
    \/ Exists
    \/ Create
    \/ Update
    \/ UpdateAll
    \/ Destroy
    \/ DestroyAll
    \/ Return

Spec == Init /\ [][Next]_vars

-----------------------------------------------------------------------------
(* One call of an operation that takes filters or sorted_by, on the         *)
(* fixtures, with a key drawn from AllKeys.                                 *)

InitKeys ==
    /\ InitCommon
    /\ default_scope \in KeyScopes
    /\ input \in KeyInputs

KeyFind ==
    \E id \in Ids, d \in BOOLEAN :
        /\ input.params = <<>>
        /\ Call("find",
                [NoArgs EXCEPT !.id = id, !.sorted_by = input.sorted_by, !.disable = d],
                find(Begin, id, input.sorted_by, "asc", d))

KeyFindBy ==
    \E d \in BOOLEAN :
        Call("find_by",
             [NoArgs EXCEPT !.params = input.params, !.sorted_by = input.sorted_by,
                            !.disable = d],
             find_by(Begin, input.sorted_by, "asc", d, input.params))

KeyFindByOrRaise ==
    \E d \in BOOLEAN :
        Call("find_by_or_raise",
             [NoArgs EXCEPT !.params = input.params, !.sorted_by = input.sorted_by,
                            !.disable = d],
             find_by_or_raise(Begin, input.sorted_by, "asc", d, input.params))

KeyWhere ==
    \E d \in BOOLEAN :
        Call("where",
             [NoArgs EXCEPT !.params = input.params, !.sorted_by = input.sorted_by,
                            !.disable = d, !.limit = DefaultLimit],
             where(Begin, DefaultLimit, 0, input.sorted_by, "asc", d, input.params))

KeyCount ==
    \E d \in BOOLEAN :
        /\ input.sorted_by = <<>>
        /\ Call("count", [NoArgs EXCEPT !.params = input.params, !.disable = d],
                count(Begin, d, input.params))

KeyExists ==
    \E d \in BOOLEAN :
        /\ input.sorted_by = <<>>
        /\ Call("exists", [NoArgs EXCEPT !.params = input.params, !.disable = d],
                exists(Begin, d, input.params))

KeyUpdateAll ==
    /\ input.sorted_by = <<>>
    /\ Call("update_all",
            [NoArgs EXCEPT !.params = input.params, !.fields = << <<"age", 2>> >>],
            update_all(Begin, << <<"age", 2>> >>, input.params))

KeyDestroyAll ==
    /\ input.sorted_by = <<>>
    /\ Call("destroy_all", [NoArgs EXCEPT !.params = input.params],
            destroy_all(Begin, input.params))

NextKeys ==
    \/ KeyFind
    \/ KeyFindBy
    \/ KeyFindByOrRaise
    \/ KeyWhere
    \/ KeyCount
    \/ KeyExists
    \/ KeyUpdateAll
    \/ KeyDestroyAll

SpecKeys == InitKeys /\ [][NextKeys]_vars

-----------------------------------------------------------------------------
(* Properties *)

Returns == last.op # "none" /\ last.res.status = "ok"

\* r satisfies every item of the default scope (each a plain column equality).
InScope(r) ==
    \A i \in 1..Len(default_scope) : r[default_scope[i][1][1]] = default_scope[i][2].v

\* r satisfies every explicit filter of f.
Satisfies(r, f) ==
    \A i \in 1..Len(f) : Holds(get_conditions(f).conds[i], r)

\* The keyword arguments given, as fields of the entity e.
HasFields(e, given) == \A i \in 1..Len(given) : e[given[i][1]] = given[i][2]

\* The outcome of find(id), called next on the session as it now is.
FindNext(id, disable) == find(Begin, id, <<>>, "asc", disable).res

\* C1 (as amended): after create(**fields) returns, the entity it returned
\* carries the fields passed, and a find(id) of its id, called next, returns
\* an entity with those fields if the created row satisfies the default scope
\* or find is called with disable_default_scope=True; if the created row
\* violates the default scope, find(id) raises NoResultFound.
C1_FindAfterCreate ==
    (last.op = "create" /\ Returns) =>
        LET e == last.res.rows[1]
        IN  /\ HasFields(e, last.args.fields)
            /\ FindNext(e.id, TRUE).status = "ok"
            /\ FindNext(e.id, TRUE).rows = <<e>>
            /\ InScope(e) => /\ FindNext(e.id, FALSE).status = "ok"
                             /\ FindNext(e.id, FALSE).rows = <<e>>
            /\ ~InScope(e) => FindNext(e.id, FALSE).status = "NoResultFound"

\* C1 as stated: after create(**fields) returns, find(id) of the returned id
\* returns an entity with the fields passed, whatever the default scope.
C1_Original ==
    (last.op = "create" /\ Returns) =>
        /\ FindNext(last.res.rows[1].id, FALSE).status = "ok"
        /\ HasFields(FindNext(last.res.rows[1].id, FALSE).rows[1], last.args.fields)

\* create(is_active=False) has returned in a repository whose default scope
\* is {"is_active": True}.
C1_Witness ==
    /\ last.op = "create" /\ Returns
    /\ default_scope # <<>>
    /\ last.res.rows[1].is_active = FALSE
    /\ last.res.rows[1] \in session.store

\* The rows a read with these arguments selects from the store S.
Visible(S, disable, f) ==
    {r \in S : Satisfies(r, f) /\ (disable \/ InScope(r))}

\* C2: when no row matches the filters (default scope merged unless
\* disabled), find_by_or_raise raises NoResultFound and find_by with the same
\* arguments returns None without raising; when a row matches, both return
\* the same row, the first match; neither call changes the store.
C2_FindByOrRaise ==
    /\ last.op = "find_by_or_raise" =>
        LET a    == last.args
            rows == Visible(last.pre, a.disable, a.params)
            fb   == find_by(Begin, a.sorted_by, a.sorted_order, a.disable, a.params).res
        IN  /\ rows = {} => /\ last.res.status = "NoResultFound"
                            /\ fb.status = "ok" /\ fb.rows = <<>>
            /\ rows # {} => /\ last.res.status = "ok"
                            /\ Len(last.res.rows) = 1
                            /\ last.res.rows[1] \in rows
                            /\ last.res.rows = fb.rows
            /\ session.store = last.pre /\ session.committed = last.pre
    /\ last.op = "find_by" =>
        LET a    == last.args
            rows == Visible(last.pre, a.disable, a.params)
        IN  /\ last.res.status = "ok"
            /\ rows = {} <=> last.res.rows = <<>>
            /\ rows # {} => Len(last.res.rows) = 1 /\ last.res.rows[1] \in rows
            /\ session.store = last.pre /\ session.committed = last.pre

\* find_by_or_raise has raised NoResultFound on a store that holds rows, none
\* of which matches.
C2_Witness ==
    /\ last.op = "find_by_or_raise"
    /\ last.res.status = "NoResultFound"
    /\ session.store # {}
    /\ last.args.params # <<>>

Limits == {Cardinality(session.store), Cardinality(session.store) + 1, DefaultLimit}

\* C3: in every store state (every store state is the state between two
\* calls), for every filter set f and either value of disable_default_scope,
\* count(**f) is the number of rows where(offset=0, limit=L, **f) returns for
\* any L >= the number of rows in the store, under any ordering; a parent with
\* several matching related rows counts once.  The count a call has returned
\* is that number too.
C3_CountIsLenWhere ==
    /\ last = Idle =>
        \A f \in Filters, d \in BOOLEAN, so \in Sorts, L \in Limits :
            /\ count(Begin, d, f).res.status = "ok"
            /\ where(Begin, L, 0, so.by, so.order, d, f).res.status = "ok"
            /\ count(Begin, d, f).res.n
                  = Len(where(Begin, L, 0, so.by, so.order, d, f).res.rows)
            /\ count(Begin, d, f).res.n = Cardinality(Visible(session.store, d, f))
    /\ last.op = "count" =>
        /\ last.res.status = "ok"
        /\ \A L \in Limits :
              last.res.n = Len(where(Begin, L, 0, <<>>, "asc", last.args.disable,
                                     last.args.params).res.rows)

\* The posts of row r whose title is "ab".
MatchingPosts(r) == {p \in posts : p.user_id = r.id /\ p.title = <<"a", "b">>}

\* count(posts__title="ab") has counted a parent that has two matching posts.
C3_Witness ==
    /\ last.op = "count" /\ Returns
    /\ last.args.params = << <<(<<"posts", Sep, "title">>), Val(<<"a", "b">>)>> >>
    /\ last.res.n = 1
    /\ \E r \in session.store : Cardinality(MatchingPosts(r)) = 2

\* The row r with the assignments of updates made, in order.
Assigned(r, updates) ==
    [f \in DOMAIN r |->
        IF \E i \in 1..Len(updates) : updates[i][1] = f
        THEN updates[CHOOSE i \in 1..Len(updates) :
                         /\ updates[i][1] = f
                         /\ \A j \in (i + 1)..Len(updates) : updates[j][1] # f][2]
        ELSE r[f]]

C5_DestroyAll ==
    (last.op = "destroy_all" /\ Returns) =>
        LET a       == last.args
            matched == {r \in last.pre : Satisfies(r, a.params)}
        IN  /\ session.store = last.pre \ matched
            /\ last.res.n = Cardinality(matched)
            /\ count(Begin, FALSE, a.params).res.status = "ok"
            /\ count(Begin, FALSE, a.params).res.n = 0

\* destroy_all has removed some rows, one of them outside the default scope,
\* and left others.
C5_Witness ==
    /\ last.op = "destroy_all" /\ Returns
    /\ default_scope # <<>>
    /\ last.res.n >= 1
    /\ session.store # {}
    /\ \E r \in last.pre \ session.store : ~InScope(r)

Reads == {"find", "find_by", "find_by_or_raise", "where", "count", "exists"}

\* The explicit filters of the call: find's is its id.
Explicit(a, op) == IF op = "find" THEN IdParam(a.id) ELSE a.params

\* What C7 says of the state a call has left.
C7_Selected ==
    LET a    == last.args
        f    == Explicit(a, last.op)
        rows == Visible(last.pre, a.disable, f)
    IN  /\ (last.op \in {"where", "find", "find_by"} /\ Returns) =>
              \A i \in 1..Len(last.res.rows) :
                  /\ last.res.rows[i] \in last.pre
                  /\ Satisfies(last.res.rows[i], f)
                  /\ ~a.disable => InScope(last.res.rows[i])
        /\ (last.op = "where" /\ a.limit = DefaultLimit /\ a.offset = 0) =>
              /\ Returns
              /\ {last.res.rows[i] : i \in 1..Len(last.res.rows)} = rows
        /\ last.op = "find" => (Returns <=> rows # {})
        /\ last.op = "find_by" => (last.res.rows # <<>> <=> rows # {})
        /\ last.op = "count" => Returns /\ last.res.n = Cardinality(rows)
        /\ last.op = "exists" => Returns /\ (last.res.flag <=> rows # {})

\* C7: with the default scope enabled, every row where, find and find_by
\* return, and every row count and exists count, satisfies all default-scope
\* conditions and all explicit filters; with disable_default_scope=True the
\* explicit filters alone decide, so rows outside the default scope are
\* returned too; no repository method changes default_scope.
C7_DefaultScope == [](C7_Selected) /\ [][default_scope' = default_scope]_vars

\* where(disable_default_scope=True) has returned a row outside the default
\* scope {"is_active": True}.
C7_Witness ==
    /\ last.op = "where" /\ Returns
    /\ last.args.disable
    /\ default_scope # <<>>
    /\ \E i \in 1..Len(last.res.rows) : ~InScope(last.res.rows[i])

Writes == {"create", "update", "update_all", "destroy", "destroy_all"}

\* The positions of a session method in the trace of the call.
At(what) == {i \in 1..Len(last.log) : last.log[i] = what}

\* The staging step of each write: add, attribute assignment, the bulk
\* statement, delete.
Staging(op) ==
    CASE op = "create"      -> "add"
      [] op = "update"      -> "setattr"
      [] op = "update_all"  -> "execute"
      [] op = "destroy"     -> "delete"
      [] op = "destroy_all" -> "execute"

\* C8: a write that returns has committed exactly once, after its staging
\* step and before returning; create and update refresh after the commit;
\* the session holds no staged or flushed change that is not committed.
C8_CommitOnce ==
    /\ (last.op \in Writes /\ Returns) =>
          /\ Cardinality(At("commit")) = 1
          /\ At(Staging(last.op)) # {}
          /\ \A i \in At(Staging(last.op)), c \in At("commit") : i < c
          /\ \A i \in At("refresh"), c \in At("commit") : c < i
          /\ last.op \in {"create", "update"} <=> At("refresh") # {}
    /\ session.staged = <<>>
    /\ session.store = session.committed

\* update(id, is_active=True, age=2) has returned: find, two assignments,
\* commit, refresh.
C8_Witness ==
    /\ last.op = "update" /\ Returns
    /\ last.log = <<"execute", "setattr", "setattr", "commit", "refresh">>
    /\ session.store # last.pre

\* C9: update and destroy look the row up with the default scope applied;
\* when no row of that id is visible (absent, or outside the default scope)
\* they raise what find raises, with no assignment, delete or commit, the
\* store unchanged; when it is visible, update changes the given fields of
\* that row only and destroy removes that row only.
C9_UpdateDestroy ==
    (last.op \in {"update", "destroy"}) =>
        LET id      == last.args.id
            visible == {r \in last.pre : r.id = id /\ InScope(r)}
        IN  /\ visible = {} =>
                /\ last.res = Failed("NoResultFound")
                /\ last.res = FindNext(id, FALSE)
                /\ At("setattr") = {} /\ At("delete") = {} /\ At("commit") = {}
                /\ session.store = last.pre /\ session.committed = last.pre
            /\ (visible # {} /\ last.op = "update") =>
                /\ Returns
                /\ session.store =
                      {IF r.id = id THEN Assigned(r, last.args.fields) ELSE r : r \in last.pre}
                /\ last.res.rows = <<Assigned(CHOOSE r \in visible : TRUE, last.args.fields)>>
            /\ (visible # {} /\ last.op = "destroy") =>
                /\ Returns
                /\ session.store = last.pre \ visible

\* update has raised NoResultFound for a row that is in the store, outside
\* the default scope.
C9_Witness ==
    /\ last.op = "update"
    /\ last.res.status = "NoResultFound"
    /\ \E r \in session.store : r.id = last.args.id /\ ~InScope(r)

-----------------------------------------------------------------------------
(* Properties of a single call with a drawn key (SpecKeys) *)

IsColumn(cls, name) == Len(name) = 1 /\ name[1] \in Columns[cls]

IsRelationship(cls, name) == Len(name) = 1 /\ name[1] \in Relationships[cls]

\* The names a key gives in field position: its segments, the operator (a
\* last segment that is in the table, when the key has a separator) set aside.
FieldNames(key) ==
    LET parts == split(key)
    IN  IF Len(parts) > 1 /\ parts[Len(parts)] \in {<<o>> : o \in OPERATORS}
        THEN SubSeq(parts, 1, Len(parts) - 1)
        ELSE parts

\* The names resolve: one field of the entity, or one relationship of the
\* entity and one field of its target.
Resolve(names) ==
    \/ Len(names) = 1 /\ IsColumn(Model, names[1])
    \/ /\ Len(names) = 2
       /\ IsRelationship(Model, names[1])
       /\ IsColumn(RelTarget[names[1][1]], names[2])

AllResolve(params) == \A i \in 1..Len(params) : Resolve(FieldNames(params[i][1]))

\* C6 as stated: a call of an operation that takes filters or sorted_by, one
\* of whose filter keys (explicit, or of the default scope when it is merged)
\* or whose sorted_by names something that does not resolve, raises the
\* resolution error before the session executes anything, the store unchanged.
C6_Original ==
    (last.op # "none") =>
        LET a      == last.args
            merged == last.op \in Reads /\ ~a.disable
            bad    == \/ ~AllResolve(a.params)
                      \/ merged /\ ~AllResolve(default_scope)
                      \/ a.sorted_by # <<>> /\ ~IsColumn(Model, a.sorted_by)
        IN  bad => /\ last.res.status = "AttributeError"
                   /\ last.log = <<>>
                   /\ session.store = last.pre
                   /\ session.committed = last.pre

\* C10 as stated: a key the filter compiler accepts is, its operator set
\* aside, exactly one resolvable field, or exactly one resolvable relationship
\* followed by one resolvable field of its target; every other key fails at
\* compile time.
C10_Original ==
    (last.op \in {"update_all", "destroy_all"} /\ last.res.status # "AttributeError") =>
        AllResolve(last.args.params)

====
